---- MODULE Spec2Model ----
(***************************************************************************)
(* The vSphere input plugin: one polling cycle (Gather) of                 *)
(* plugins/inputs/vsphere/vsphere.go.                                      *)
(*                                                                         *)
(* vsphere.go holds two revisions of the plugin: the concurrent Gather     *)
(* (lines 62-146, one goroutine per configured pattern, joined by a        *)
(* sync.WaitGroup) with its three gather*Metrics functions (148-267), and  *)
(* the sequential Gather (lines 453-515) with its own three functions      *)
(* (333-451).  unnamed/part_000 holds a third, the first revision: a       *)
(* sequential Gather without pattern lists (lines 129-178) over all        *)
(* datastores and all virtual machines.  All three are modelled;           *)
(* `variant` says which one a cycle runs.                                  *)
(*                                                                         *)
(* The endpoint (govmomi client, finder, property collector) and the       *)
(* accumulator are the environment: a call to the endpoint either fails    *)
(* or returns a value drawn from a small inventory; the accumulator is an  *)
(* append-only bag of records and a bag of errors.                         *)
(***************************************************************************)
EXTENDS Integers, Sequences, FiniteSets, Bags, TLC

VARIABLES
    variant,          \* "concurrent" | "sequential" | "legacy": the revision of Gather run
    cfg,              \* the VSphere struct: Hosts, Datastores, VirtualMachines
    gpc,              \* position of the Gather goroutine; "panicked": a panic unwound it
    retval,           \* what Gather returned: "none" | "nil" | "err"
    session,          \* the govmomi session: "none" | "open" | "closed"
    ctxCancelled,     \* whether ctx (line 63) has been cancelled
    wg,               \* the sync.WaitGroup counter (line 86)
    spawned,          \* how many pattern tasks the loops have started
    pc,               \* per task: "idle" | "resolving" | "fetching" | "extracting" | "done"
                      \*           | "panicked": its extractor dereferenced a nil pointer
    outcome,          \* per task: "pending" | "listFailed" | "propsFailed" | "ok"
    refs,             \* per task: the object references its resolution returned
    results,          \* per task: the property bags Retrieve returned, not yet extracted
    retrieveCall,     \* per task: <<>> (no call issued) or <<n>>: Retrieve called with n refs;
                      \*           with pc "fetching", the call is in flight
    nEmitted,         \* per task: how many records it has passed to AddFields
    metrics,          \* the accumulator's records (AddFields), a bag
    errors,           \* the accumulator's errors (AddError), a bag
    crashed,          \* the process died of an unrecovered panic
    established,      \* the session was established: login and datacenter lookup succeeded
    cancelRequested   \* the caller has asked for the running cycle to be cancelled

vars == << variant, cfg, gpc, retval, session, ctxCancelled, wg, spawned, pc,
           outcome, refs, results, retrieveCall, nEmitted, metrics, errors,
           crashed, established, cancelRequested >>

-----------------------------------------------------------------------------
(* Bounds *)

\* The largest number of objects one pattern resolves to.
MaxObjs == 2

-----------------------------------------------------------------------------
(* Optional (pointer) sub-structures of the vim25 property bags: a nil     *)
(* pointer is None, a non-nil one Some(x), dereferenced by Deref.          *)

None == << >>
Some(x) == << x >>
Deref(p) == p[1]

-----------------------------------------------------------------------------
(* The endpoint's inventory: the property bags Retrieve can return.        *)

\* mo.HostSystem as retrieved with {"name", "summary"}.
HostBag(id) ==
    [ Name |-> id,
      Summary |->
        [ Runtime |-> Some([ConnectionState |-> "connected"]),
          OverallStatus |-> "green",
          Hardware |-> IF id = "esx2" THEN None
                       ELSE Some([NumCpuCores |-> 16, CpuMhz |-> 2693,
                                  MemorySize |-> 3145733]),
          QuickStats |-> [OverallCpuUsage |-> 25134,
                          OverallMemoryUsage |-> 2] ] ]

\* mo.Datastore as retrieved with {"summary"}: OverallStatus is not among the
\* requested properties and keeps Go's zero value.
DatastoreBag(id) ==
    [ OverallStatus |-> "",
      Summary |-> [ Name |-> id,
                    Url |-> IF id = "ds1" THEN "ds:///vmfs/volumes/ds1/"
                            ELSE "ds:///vmfs/volumes/ds2/",
                    Type |-> IF id = "ds1" THEN "VMFS" ELSE "NFS",
                    Capacity |-> 1000, FreeSpace |-> 400, Uncommitted |-> 50 ] ]

\* mo.VirtualMachine as retrieved with {"name", "config", "summary"}.
\* vm1: guest tools running.  vm2: guest tools not running (empty guest IP
\* address and host name).  vm3: no Config.  vm4: no Summary.Guest.
\* vm5: no Summary.Storage.
VMBag(id) ==
    [ Name |-> id,
      Config |-> IF id = "vm3" THEN None
                 ELSE Some([ GuestFullName |-> "Ubuntu Linux (64-bit)",
                             GuestId |-> "ubuntu64Guest",
                             Hardware |-> [NumCPU |-> 1, NumCoresPerSocket |-> 1,
                                           MemoryMB |-> 8192] ]),
      Summary |->
        [ Guest |-> IF id = "vm4" THEN None
                    ELSE IF id = "vm2"
                    THEN Some([HostName |-> "", IpAddress |-> "",
                               ToolsRunningStatus |-> "guestToolsNotRunning"])
                    ELSE Some([HostName |-> "vm1.domain.com",
                               IpAddress |-> "192.168.1.2",
                               ToolsRunningStatus |-> "guestToolsRunning"]),
          Runtime |-> [ConnectionState |-> "connected", MaxCpuUsage |-> 2194,
                       MaxMemoryUsage |-> 8192],
          Config |-> [VmPathName |-> "[ds1] vm/vm.vmx"],
          OverallStatus |-> "green",
          QuickStats |-> [OverallCpuUsage |-> 43, OverallCpuDemand |-> 43,
                          HostMemoryUsage |-> 8150, GuestMemoryUsage |-> 737,
                          SwappedMemory |-> 0, BalloonedMemory |-> 0,
                          UptimeSeconds |-> 60],
          Storage |-> IF id = "vm5" THEN None
                      ELSE Some([Committed |-> 576, Uncommitted |-> 478]) ] ]

Inventory(kind) ==
    CASE kind = "host"      -> {"esx1", "esx2"}
      [] kind = "datastore" -> {"ds1", "ds2"}
      [] kind = "vm"        -> {"vm1", "vm2", "vm3", "vm4", "vm5"}

BagOf(kind, id) ==
    CASE kind = "host"      -> HostBag(id)
      [] kind = "datastore" -> DatastoreBag(id)
      [] kind = "vm"        -> VMBag(id)

\* What finder.HostSystemList / DatastoreList / VirtualMachineList can return
\* on success: distinct objects of the kind, in any order, at most MaxObjs.
\* The callers put no condition on the list, so the empty one is among them.
Resolutions(kind) ==
    { s \in UNION { [1..n -> Inventory(kind)] : n \in 0..MaxObjs } :
        \A i, j \in DOMAIN s : i # j => s[i] # s[j] }

-----------------------------------------------------------------------------
(* The metric extractors of the concurrent revision (lines 161-180,        *)
(* 199-213, 231-264).  A record is what AddFields receives: the            *)
(* measurement, the tag map and the field map.  An extractor dereferences  *)
(* the pointer sub-structures without a nil check: on a nil one the        *)
(* goroutine panics, and nothing in the plugin recovers it.                *)

\* The quotient of Go's integer division: truncated toward zero.
GoDiv(a, b) ==
    LET abs(x) == IF x < 0 THEN -x ELSE x
        q == abs(a) \div abs(b)
    IN  IF (a < 0) = (b < 0) THEN q ELSE -q

HostPanics(host) ==
    \/ host.Summary.Runtime = None      \* line 168
    \/ host.Summary.Hardware = None     \* line 171

HostRecord(host) ==
    [ measurement |-> "host",
      tags   |-> [ name |-> host.Name ],
      fields |->
        [ connection_state |-> Deref(host.Summary.Runtime).ConnectionState,
          health_status    |-> host.Summary.OverallStatus,
          cpu_cores        |-> Deref(host.Summary.Hardware).NumCpuCores,
          cpu_speed        |-> Deref(host.Summary.Hardware).CpuMhz,
          cpu_usage        |-> host.Summary.QuickStats.OverallCpuUsage,
          memory_granted   |-> GoDiv(GoDiv(Deref(host.Summary.Hardware).MemorySize,
                                           1024), 1024),
          memory_usage     |-> host.Summary.QuickStats.OverallMemoryUsage ] ]

DatastorePanics(datastore) == FALSE

DatastoreRecord(datastore) ==
    [ measurement |-> "datastore",
      tags   |-> [ name |-> datastore.Summary.Name ],
      fields |->
        [ type              |-> datastore.Summary.Type,
          health_status     |-> datastore.OverallStatus,
          capacity          |-> datastore.Summary.Capacity,
          free_space        |-> datastore.Summary.FreeSpace,
          uncommitted_space |-> datastore.Summary.Uncommitted ] ]

VMPanics(vm) ==
    \/ vm.Summary.Guest = None          \* line 237
    \/ vm.Config = None                 \* line 239
    \/ vm.Summary.Storage = None        \* line 260

VMRecord(vm) ==
    [ measurement |-> "virtual_machine",
      tags   |-> [ name     |-> vm.Name,
                   hostname |-> Deref(vm.Summary.Guest).HostName ],
      fields |->
        [ guest_os_name        |-> Deref(vm.Config).GuestFullName,
          guest_os_id          |-> Deref(vm.Config).GuestId,
          ip_address           |-> Deref(vm.Summary.Guest).IpAddress,
          connection_state     |-> vm.Summary.Runtime.ConnectionState,
          health_status        |-> vm.Summary.OverallStatus,
          guest_tools_running  |-> Deref(vm.Summary.Guest).ToolsRunningStatus,
          cpu_sockets          |-> Deref(vm.Config).Hardware.NumCPU,
          cpu_cores_per_socket |-> Deref(vm.Config).Hardware.NumCoresPerSocket,
          cpu_entitlement      |-> vm.Summary.Runtime.MaxCpuUsage,
          cpu_usage            |-> vm.Summary.QuickStats.OverallCpuUsage,
          cpu_demand           |-> vm.Summary.QuickStats.OverallCpuDemand,
          memory_granted       |-> Deref(vm.Config).Hardware.MemoryMB,
          memory_entitlement   |-> vm.Summary.Runtime.MaxMemoryUsage,
          memory_host_consumed |-> vm.Summary.QuickStats.HostMemoryUsage,
          memory_guest_active  |-> vm.Summary.QuickStats.GuestMemoryUsage,
          memory_swapped       |-> vm.Summary.QuickStats.SwappedMemory,
          memory_ballooned     |-> vm.Summary.QuickStats.BalloonedMemory,
          storage_committed    |-> Deref(vm.Summary.Storage).Committed,
          storage_uncommitted  |-> Deref(vm.Summary.Storage).Uncommitted ] ]

Panics(kind, bag) ==
    CASE kind = "host"      -> HostPanics(bag)
      [] kind = "datastore" -> DatastorePanics(bag)
      [] kind = "vm"        -> VMPanics(bag)

Record(kind, bag) ==
    CASE kind = "host"      -> HostRecord(bag)
      [] kind = "datastore" -> DatastoreRecord(bag)
      [] kind = "vm"        -> VMRecord(bag)

-----------------------------------------------------------------------------
(* Configuration: the three pattern lists of the VSphere struct.           *)

\* Lines 269-271: the instance the plugin registry creates, &VSphere{}: the
\* three lists are nil, and a configuration that sets none leaves them so.
NewVSphere ==
    [Hosts |-> << >>, Datastores |-> << >>, VirtualMachines |-> << >>]

Configs ==
    { NewVSphere,
      [Hosts |-> <<"*">>,           Datastores |-> <<"*">>,    VirtualMachines |-> <<"*">>],
      [Hosts |-> <<"esx*", "esx*">>, Datastores |-> << >>,      VirtualMachines |-> << >>],
      [Hosts |-> << >>,             Datastores |-> <<"ds1", "ds*">>, VirtualMachines |-> <<"db*">>] }

\* The pattern tasks of a cycle, in the order the loops of lines 88, 108 and
\* 126 start them.
TaskSeq(c) ==
    [i \in 1..Len(c.Hosts) |-> [kind |-> "host", name |-> c.Hosts[i]]]
    \o [i \in 1..Len(c.Datastores) |-> [kind |-> "datastore", name |-> c.Datastores[i]]]
    \o [i \in 1..Len(c.VirtualMachines) |-> [kind |-> "vm", name |-> c.VirtualMachines[i]]]

NTasks == Len(TaskSeq(cfg))
TaskIds == 1..NTasks
Kind(t) == TaskSeq(cfg)[t].kind
Name(t) == TaskSeq(cfg)[t].name

-----------------------------------------------------------------------------
(* The accumulator.                                                        *)

AddFields(r) == metrics' = metrics (+) SetToBag({r})
AddError(e)  == errors' = errors (+) SetToBag({e})

\* A closure that read the loops' variable instead of its own parameter: it
\* names the last pattern of its kind's list.
ListError_LoopVariable(t) ==
    [ kind |-> Kind(t), what |-> "list",
      name |-> Name(CHOOSE u \in TaskIds :
                       /\ Kind(u) = Kind(t)
                       /\ \A w \in TaskIds : Kind(w) = Kind(t) => w <= u) ]

\* fmt.Errorf("Cannot read <kind> list for '%s': %s", name, err)
ListError(t) == [kind |-> Kind(t), what |-> "list", name |-> Name(t)]

\* fmt.Errorf("Cannot read <kind> properties for '%s': %s", name, err)
PropsError(t) == [kind |-> Kind(t), what |-> "properties", name |-> Name(t)]

-----------------------------------------------------------------------------
(* Initial state: a plugin instance on which Gather has just been called.  *)

InitCycle ==
    /\ gpc = "parse"
    /\ retval = "none"
    /\ session = "none"
    /\ ctxCancelled = FALSE
    /\ wg = 0
    /\ spawned = 0
    /\ pc = [t \in TaskIds |-> "idle"]
    /\ outcome = [t \in TaskIds |-> "pending"]
    /\ refs = [t \in TaskIds |-> << >>]
    /\ results = [t \in TaskIds |-> << >>]
    /\ retrieveCall = [t \in TaskIds |-> << >>]
    /\ nEmitted = [t \in TaskIds |-> 0]
    /\ metrics = EmptyBag
    /\ errors = EmptyBag
    /\ crashed = FALSE
    /\ established = FALSE
    /\ cancelRequested = FALSE

InitCommon == cfg \in Configs /\ InitCycle

Init == variant = "concurrent" /\ InitCommon

-----------------------------------------------------------------------------
(* The concurrent Gather, lines 62-146.  Its first three steps, the        *)
(* session establishment, are also those of the sequential Gather and of  *)
(* the first revision (unnamed/part_000 lines 133-155).                    *)

taskVars == << pc, outcome, refs, results, retrieveCall, nEmitted >>

\* A return of Gather: the deferred cancel() of line 64 runs.  No exit path
\* calls client.Logout: the session stays as it is.
Return(v) ==
    /\ gpc' = "returned"
    /\ retval' = v
    /\ ctxCancelled' = TRUE
    /\ UNCHANGED session

\* Lines 66-70 (the same code at 457-461): url.Parse.
GatherParseURL ==
    /\ ~crashed /\ gpc = "parse"
    /\ \/ gpc' = "login" /\ UNCHANGED << retval, ctxCancelled, session >>
       \/ Return("err")
    /\ UNCHANGED << variant, cfg, established, wg, spawned, taskVars, metrics, errors,
                    crashed, cancelRequested >>

\* Lines 72-77 (the same code at 463-468): govmomi.NewClient connects and
\* logs in.
GatherLogin ==
    /\ ~crashed /\ gpc = "login"
    /\ \/ /\ gpc' = "datacenter"
          /\ session' = "open"
          /\ UNCHANGED << retval, ctxCancelled >>
       \/ Return("err")
    /\ UNCHANGED << variant, cfg, established, wg, spawned, taskVars, metrics, errors,
                    crashed, cancelRequested >>

\* Lines 79-84 (the same code at 470-477): finder.DefaultDatacenter; on
\* success each revision goes on to its own loops.
GatherDatacenter ==
    /\ ~crashed /\ gpc = "datacenter"
    /\ \/ /\ gpc' = IF variant = "concurrent" THEN "spawn" ELSE "loop"
          /\ established' = TRUE
          /\ UNCHANGED << retval, ctxCancelled, session >>
       \/ Return("err") /\ UNCHANGED established
    /\ UNCHANGED << variant, cfg, wg, spawned, taskVars, metrics, errors,
                    crashed, cancelRequested >>

\* Lines 88-90, 108-110, 126-128: wg.Add(1); go func(name string) {...}(name).
GatherSpawn ==
    /\ variant = "concurrent" /\ ~crashed /\ gpc = "spawn"
    /\ spawned < NTasks
    /\ wg' = wg + 1
    /\ spawned' = spawned + 1
    /\ pc' = [pc EXCEPT ![spawned + 1] = "resolving"]
    /\ UNCHANGED << variant, cfg, established, gpc, retval, session, ctxCancelled, outcome,
                    refs, results, retrieveCall, nEmitted, metrics, errors,
                    crashed, cancelRequested >>

\* Line 144: wg.Wait() returns when the counter is zero.
WaitReturns == wg = 0

\* A Gather that returned an error when a task had reported one.
JoinResult_FromErrors == IF errors = EmptyBag THEN "nil" ELSE "err"

\* Line 145: after the join Gather returns nil, whatever the tasks reported.
JoinResult == "nil"

\* Lines 144-145: wg.Wait(); return nil.
GatherWait ==
    /\ variant = "concurrent" /\ ~crashed /\ gpc = "spawn"
    /\ spawned = NTasks
    /\ WaitReturns
    /\ Return(JoinResult)
    /\ UNCHANGED << variant, cfg, established, wg, spawned, taskVars, metrics, errors,
                    crashed, cancelRequested >>

\* The end of a task's goroutine: return, then the deferred wg.Done().
Finish(t, o) ==
    /\ pc' = [pc EXCEPT ![t] = "done"]
    /\ outcome' = [outcome EXCEPT ![t] = o]
    /\ wg' = wg - 1

\* A closure without the return of line 96: after reporting the failed finder
\* call it goes on to the retrieval with the nil list.
TaskResolve_NoReturn(t) ==
    /\ variant = "concurrent" /\ ~crashed /\ pc[t] = "resolving"
    /\ \/ /\ AddError(ListError(t))
          /\ outcome' = [outcome EXCEPT ![t] = "listFailed"]
          /\ UNCHANGED refs
       \/ /\ \E r \in Resolutions(Kind(t)) : refs' = [refs EXCEPT ![t] = r]
          /\ UNCHANGED << outcome, errors >>
    /\ pc' = [pc EXCEPT ![t] = "fetching"]
    /\ UNCHANGED << variant, cfg, established, gpc, retval, session, ctxCancelled,
                    spawned, wg, results, retrieveCall, nEmitted, metrics,
                    crashed, cancelRequested >>

\* Lines 93-97, 113-117, 131-135: the finder call of task t.
TaskResolve(t) ==
    /\ variant = "concurrent" /\ ~crashed /\ pc[t] = "resolving"
    /\ \/ /\ AddError(ListError(t))
          /\ Finish(t, "listFailed")
          /\ UNCHANGED refs
       \/ /\ \E r \in Resolutions(Kind(t)) : refs' = [refs EXCEPT ![t] = r]
          /\ pc' = [pc EXCEPT ![t] = "fetching"]
          /\ UNCHANGED << outcome, wg, errors >>
    /\ UNCHANGED << variant, cfg, established, gpc, retval, session, ctxCancelled, spawned,
                    results, retrieveCall, nEmitted, metrics, crashed,
                    cancelRequested >>

\* Lines 148-156, 185-194, 218-226: the references are collected and
\* collector.Retrieve is called with them, whatever their number.  The
\* goroutine then waits in the call for the endpoint's reply.
TaskFetch(t) ==
    /\ variant = "concurrent" /\ ~crashed /\ pc[t] = "fetching"
    /\ retrieveCall[t] = << >>
    /\ retrieveCall' = [retrieveCall EXCEPT ![t] = << Len(refs[t]) >>]
    /\ UNCHANGED << variant, cfg, established, gpc, retval, session, ctxCancelled, wg,
                    spawned, pc, outcome, refs, results, nEmitted, metrics, errors,
                    crashed, cancelRequested >>

\* Lines 156-159, 194-197, 226-229 with 100-104, 118-122, 136-140:
\* collector.Retrieve returns, an error or the property bags.
TaskFetchReturn(t) ==
    /\ variant = "concurrent" /\ ~crashed /\ pc[t] = "fetching"
    /\ retrieveCall[t] # << >>
    /\ \/ /\ AddError(PropsError(t))
          /\ Finish(t, "propsFailed")
          /\ UNCHANGED results
       \/ /\ results' = [results EXCEPT
                           ![t] = [i \in 1..Len(refs[t]) |-> BagOf(Kind(t), refs[t][i])]]
          /\ pc' = [pc EXCEPT ![t] = "extracting"]
          /\ UNCHANGED << outcome, wg, errors >>
    /\ UNCHANGED << variant, cfg, established, gpc, retval, session, ctxCancelled, spawned,
                    refs, retrieveCall, nEmitted, metrics, crashed, cancelRequested >>

\* Lines 161-182, 199-215, 231-266: one turn of the loop over the results,
\* or its end (return nil, and the closure returns).  A nil dereference
\* panics the goroutine: the panic unwinds the closure, whose deferred
\* wg.Done() (lines 91, 111, 129) runs, and no frame recovers it.
TaskExtract(t) ==
    /\ variant = "concurrent" /\ ~crashed /\ pc[t] = "extracting"
    /\ IF results[t] = << >>
       THEN /\ Finish(t, "ok")
            /\ UNCHANGED << results, nEmitted, metrics >>
       ELSE IF Panics(Kind(t), Head(results[t]))
       THEN /\ pc' = [pc EXCEPT ![t] = "panicked"]
            /\ wg' = wg - 1
            /\ UNCHANGED << outcome, results, nEmitted, metrics >>
       ELSE /\ AddFields(Record(Kind(t), Head(results[t])))
            /\ results' = [results EXCEPT ![t] = Tail(results[t])]
            /\ nEmitted' = [nEmitted EXCEPT ![t] = nEmitted[t] + 1]
            /\ UNCHANGED << pc, outcome, wg >>
    /\ UNCHANGED << variant, cfg, established, gpc, retval, session, ctxCancelled, spawned,
                    refs, retrieveCall, errors, crashed, cancelRequested >>

\* The end of an unrecovered panic in a goroutine: once its deferred calls
\* have run, the Go runtime ends the process.  The other goroutines run
\* until then: Gather, released by the deferred wg.Done(), may have returned.
ProcessExit ==
    /\ variant = "concurrent" /\ ~crashed
    /\ \E t \in TaskIds : pc[t] = "panicked"
    /\ crashed' = TRUE
    /\ UNCHANGED << variant, cfg, established, gpc, retval, session, ctxCancelled, wg,
                    spawned, taskVars, metrics, errors, cancelRequested >>

\* The caller decides, while the cycle runs, that it should be cancelled.
\* Gather takes no context and derives ctx from context.Background() (line
\* 63): the request reaches nothing in the cycle.
RequestCancel ==
    /\ ~crashed /\ gpc \notin { "returned", "panicked" } /\ ~cancelRequested
    /\ cancelRequested' = TRUE
    /\ UNCHANGED << variant, cfg, established, gpc, retval, session, ctxCancelled, wg,
                    spawned, taskVars, metrics, errors, crashed >>

-----------------------------------------------------------------------------
(* The sequential Gather, lines 453-515, and its extractors, 333-451: the  *)
(* patterns are handled one after the other in the Gather goroutine,       *)
(* datastores first, then virtual machines, then hosts, and the first      *)
(* failing call ends the cycle.                                            *)

\* Lines 347-359: no health_status.
SeqDatastoreRecord(ds) ==
    [ measurement |-> "datastore",
      tags   |-> [ name |-> ds.Summary.Name ],
      fields |-> [ type              |-> ds.Summary.Type,
                   capacity          |-> ds.Summary.Capacity,
                   free_space        |-> ds.Summary.FreeSpace,
                   uncommitted_space |-> ds.Summary.Uncommitted ] ]

\* Lines 378-412: the fields of lines 231-264 and uptime (line 407).
SeqVMRecord(vm) ==
    [ measurement |-> "virtual_machine",
      tags   |-> VMRecord(vm).tags,
      fields |-> [uptime |-> vm.Summary.QuickStats.UptimeSeconds]
                 @@ VMRecord(vm).fields ]

\* Lines 429-448 are lines 161-180.
SeqRecord(kind, bag) ==
    CASE kind = "host"      -> HostRecord(bag)
      [] kind = "datastore" -> SeqDatastoreRecord(bag)
      [] kind = "vm"        -> SeqVMRecord(bag)

\* The order of the loops of lines 481, 492 and 503, as task numbers.
SeqOrder(c) ==
    [i \in 1..Len(c.Datastores) |-> Len(c.Hosts) + i]
    \o [i \in 1..Len(c.VirtualMachines) |-> Len(c.Hosts) + Len(c.Datastores) + i]
    \o [i \in 1..Len(c.Hosts) |-> i]

\* The pattern the loops are at; `spawned` counts the finished iterations.
Current == SeqOrder(cfg)[spawned + 1]

\* Lines 482-485, 493-496, 504-507: the finder call; its error is returned.
SeqResolve ==
    /\ variant = "sequential" /\ ~crashed /\ gpc = "loop"
    /\ spawned < NTasks
    /\ pc[Current] = "idle"
    /\ \/ /\ pc' = [pc EXCEPT ![Current] = "done"]
          /\ outcome' = [outcome EXCEPT ![Current] = "listFailed"]
          /\ Return("err")
          /\ UNCHANGED refs
       \/ /\ \E r \in Resolutions(Kind(Current)) : refs' = [refs EXCEPT ![Current] = r]
          /\ pc' = [pc EXCEPT ![Current] = "fetching"]
          /\ UNCHANGED << outcome, gpc, retval, ctxCancelled, session >>
    /\ UNCHANGED << variant, cfg, established, wg, spawned, results,
                    retrieveCall, nEmitted, metrics, errors, crashed,
                    cancelRequested >>

\* Lines 333-342, 364-373, 417-424: the references are collected and
\* pc.Retrieve is called with them; Gather then waits in the call.
SeqFetch ==
    /\ variant = "sequential" /\ ~crashed /\ gpc = "loop"
    /\ spawned < NTasks
    /\ pc[Current] = "fetching"
    /\ retrieveCall[Current] = << >>
    /\ retrieveCall' = [retrieveCall EXCEPT ![Current] = << Len(refs[Current]) >>]
    /\ UNCHANGED << variant, cfg, established, gpc, retval, session, ctxCancelled, wg,
                    spawned, pc, outcome, refs, results, nEmitted, metrics, errors,
                    crashed, cancelRequested >>

\* Lines 342-345, 373-376, 424-427 with 486-489, 497-500, 508-511:
\* pc.Retrieve returns; its error is returned by Gather.
SeqFetchReturn ==
    /\ variant = "sequential" /\ ~crashed /\ gpc = "loop"
    /\ spawned < NTasks
    /\ pc[Current] = "fetching"
    /\ retrieveCall[Current] # << >>
    /\ \/ /\ pc' = [pc EXCEPT ![Current] = "done"]
          /\ outcome' = [outcome EXCEPT ![Current] = "propsFailed"]
          /\ Return("err")
          /\ UNCHANGED results
       \/ /\ results' = [results EXCEPT
                           ![Current] = [i \in 1..Len(refs[Current]) |->
                                            BagOf(Kind(Current), refs[Current][i])]]
          /\ pc' = [pc EXCEPT ![Current] = "extracting"]
          /\ UNCHANGED << outcome, gpc, retval, ctxCancelled, session >>
    /\ UNCHANGED << variant, cfg, established, wg, spawned, refs, retrieveCall,
                    nEmitted, metrics, errors, crashed, cancelRequested >>

\* Lines 347-361, 378-414, 429-450: one turn of the loop over the results, or
\* its end, after which the pattern loop goes to its next pattern.  A nil
\* dereference panics in Gather's own goroutine: the panic unwinds Gather,
\* whose deferred cancel() (line 455) runs, and Gather returns no value.  The
\* panic goes on to Gather's caller: the process dies unless the caller
\* recovers.
SeqExtract ==
    /\ variant = "sequential" /\ ~crashed /\ gpc = "loop"
    /\ spawned < NTasks
    /\ pc[Current] = "extracting"
    /\ IF results[Current] = << >>
       THEN /\ pc' = [pc EXCEPT ![Current] = "done"]
            /\ outcome' = [outcome EXCEPT ![Current] = "ok"]
            /\ spawned' = spawned + 1
            /\ UNCHANGED << results, nEmitted, metrics, crashed, gpc, ctxCancelled >>
       ELSE IF Panics(Kind(Current), Head(results[Current]))
       THEN /\ pc' = [pc EXCEPT ![Current] = "panicked"]
            /\ gpc' = "panicked"
            /\ ctxCancelled' = TRUE
            /\ crashed' \in BOOLEAN
            /\ UNCHANGED << outcome, spawned, results, nEmitted, metrics >>
       ELSE /\ AddFields(SeqRecord(Kind(Current), Head(results[Current])))
            /\ results' = [results EXCEPT ![Current] = Tail(results[Current])]
            /\ nEmitted' = [nEmitted EXCEPT ![Current] = nEmitted[Current] + 1]
            /\ UNCHANGED << pc, outcome, spawned, crashed, gpc, ctxCancelled >>
    /\ UNCHANGED << variant, cfg, established, retval, session,
                    wg, refs, retrieveCall, errors, cancelRequested >>

\* Line 514: return nil after the last loop.
SeqReturn ==
    /\ variant = "sequential" /\ ~crashed /\ gpc = "loop"
    /\ spawned = NTasks
    /\ Return("nil")
    /\ UNCHANGED << variant, cfg, established, wg, spawned, taskVars, metrics,
                    errors, crashed, cancelRequested >>

SeqStep ==
    \/ SeqResolve
    \/ SeqFetch
    \/ SeqFetchReturn
    \/ SeqExtract
    \/ SeqReturn

-----------------------------------------------------------------------------
(* The first revision, unnamed/part_000: Gather (lines 129-178) lists all  *)
(* datastores, then all virtual machines, with the fixed pattern "*"; the  *)
(* VSphere struct (lines 19-24) has no pattern list and no host is read.   *)
(* A failing call ends the cycle with its error.                           *)

\* Lines 157 and 168: the two finder calls, as the pattern lists they amount
\* to.
LegacyPatterns ==
    [Hosts |-> << >>, Datastores |-> <<"*">>, VirtualMachines |-> <<"*">>]

\* part_000 lines 63-75.
LegacyDatastoreRecord(ds) ==
    [ measurement |-> "datastore",
      tags   |-> [ name |-> ds.Summary.Name,
                   type |-> ds.Summary.Type,
                   url  |-> ds.Summary.Url ],
      fields |-> [ capacity   |-> ds.Summary.Capacity,
                   free_space |-> ds.Summary.FreeSpace ] ]

\* part_000 lines 94-124.
LegacyVMRecord(vm) ==
    [ measurement |-> "virtual_machine",
      tags   |-> [ name                |-> vm.Name,
                   guest_os_name       |-> Deref(vm.Config).GuestFullName,
                   connection_state    |-> vm.Summary.Runtime.ConnectionState,
                   health_status       |-> vm.Summary.OverallStatus,
                   vm_path_name        |-> vm.Summary.Config.VmPathName,
                   ip_address          |-> Deref(vm.Summary.Guest).IpAddress,
                   hostname            |-> Deref(vm.Summary.Guest).HostName,
                   guest_os_id         |-> Deref(vm.Config).GuestId,
                   guest_tools_running |-> Deref(vm.Summary.Guest).ToolsRunningStatus ],
      fields |->
        [ memory_granted       |-> Deref(vm.Config).Hardware.MemoryMB,
          cpu_sockets          |-> Deref(vm.Config).Hardware.NumCPU,
          memory_host_consumed |-> vm.Summary.QuickStats.HostMemoryUsage,
          memory_guest_active  |-> vm.Summary.QuickStats.GuestMemoryUsage,
          cpu_usage            |-> vm.Summary.QuickStats.OverallCpuUsage,
          cpu_demand           |-> vm.Summary.QuickStats.OverallCpuDemand,
          memory_swapped       |-> vm.Summary.QuickStats.SwappedMemory,
          uptime               |-> vm.Summary.QuickStats.UptimeSeconds,
          storage_committed    |-> Deref(vm.Summary.Storage).Committed,
          storage_uncommitted  |-> Deref(vm.Summary.Storage).Uncommitted,
          cpu_entitlement      |-> vm.Summary.Runtime.MaxCpuUsage,
          memory_entitlement   |-> vm.Summary.Runtime.MaxMemoryUsage,
          cpu_cores_per_socket |-> Deref(vm.Config).Hardware.NumCoresPerSocket ] ]

LegacyRecord(kind, bag) ==
    CASE kind = "datastore" -> LegacyDatastoreRecord(bag)
      [] kind = "vm"        -> LegacyVMRecord(bag)

\* The call Gather is at: the datastores (task 1), then the virtual
\* machines (task 2); `spawned` counts the finished ones.
LegacyCurrent == spawned + 1

\* part_000 lines 157-160, 168-171: the finder call; its error is returned.
LegacyResolve ==
    /\ variant = "legacy" /\ ~crashed /\ gpc = "loop"
    /\ spawned < NTasks
    /\ pc[LegacyCurrent] = "idle"
    /\ \/ /\ pc' = [pc EXCEPT ![LegacyCurrent] = "done"]
          /\ outcome' = [outcome EXCEPT ![LegacyCurrent] = "listFailed"]
          /\ Return("err")
          /\ UNCHANGED refs
       \/ /\ \E r \in Resolutions(Kind(LegacyCurrent)) :
                refs' = [refs EXCEPT ![LegacyCurrent] = r]
          /\ pc' = [pc EXCEPT ![LegacyCurrent] = "fetching"]
          /\ UNCHANGED << outcome, gpc, retval, ctxCancelled, session >>
    /\ UNCHANGED << variant, cfg, established, wg, spawned, results,
                    retrieveCall, nEmitted, metrics, errors, crashed,
                    cancelRequested >>

\* part_000 lines 50-58, 81-89: the references are collected and
\* pc.Retrieve is called with them; Gather then waits in the call.
LegacyFetch ==
    /\ variant = "legacy" /\ ~crashed /\ gpc = "loop"
    /\ spawned < NTasks
    /\ pc[LegacyCurrent] = "fetching"
    /\ retrieveCall[LegacyCurrent] = << >>
    /\ retrieveCall' = [retrieveCall EXCEPT
                           ![LegacyCurrent] = << Len(refs[LegacyCurrent]) >>]
    /\ UNCHANGED << variant, cfg, established, gpc, retval, session, ctxCancelled, wg,
                    spawned, pc, outcome, refs, results, nEmitted, metrics, errors,
                    crashed, cancelRequested >>

\* part_000 lines 58-61, 89-92 with 162-165, 172-175: pc.Retrieve returns;
\* its error is returned by Gather.
LegacyFetchReturn ==
    /\ variant = "legacy" /\ ~crashed /\ gpc = "loop"
    /\ spawned < NTasks
    /\ pc[LegacyCurrent] = "fetching"
    /\ retrieveCall[LegacyCurrent] # << >>
    /\ \/ /\ pc' = [pc EXCEPT ![LegacyCurrent] = "done"]
          /\ outcome' = [outcome EXCEPT ![LegacyCurrent] = "propsFailed"]
          /\ Return("err")
          /\ UNCHANGED results
       \/ /\ results' = [results EXCEPT
                           ![LegacyCurrent] =
                               [i \in 1..Len(refs[LegacyCurrent]) |->
                                   BagOf(Kind(LegacyCurrent), refs[LegacyCurrent][i])]]
          /\ pc' = [pc EXCEPT ![LegacyCurrent] = "extracting"]
          /\ UNCHANGED << outcome, gpc, retval, ctxCancelled, session >>
    /\ UNCHANGED << variant, cfg, established, wg, spawned, refs, retrieveCall,
                    nEmitted, metrics, errors, crashed, cancelRequested >>

\* part_000 lines 63-77, 94-126: one turn of the loop over the results, or
\* its end.  A nil dereference (lines 100, 104, 117) panics in Gather's own
\* goroutine: the deferred cancel() (line 131) runs, Gather returns no value,
\* and the process dies unless Gather's caller recovers.
LegacyExtract ==
    /\ variant = "legacy" /\ ~crashed /\ gpc = "loop"
    /\ spawned < NTasks
    /\ pc[LegacyCurrent] = "extracting"
    /\ IF results[LegacyCurrent] = << >>
       THEN /\ pc' = [pc EXCEPT ![LegacyCurrent] = "done"]
            /\ outcome' = [outcome EXCEPT ![LegacyCurrent] = "ok"]
            /\ spawned' = spawned + 1
            /\ UNCHANGED << results, nEmitted, metrics, crashed, gpc, ctxCancelled >>
       ELSE IF Panics(Kind(LegacyCurrent), Head(results[LegacyCurrent]))
       THEN /\ pc' = [pc EXCEPT ![LegacyCurrent] = "panicked"]
            /\ gpc' = "panicked"
            /\ ctxCancelled' = TRUE
            /\ crashed' \in BOOLEAN
            /\ UNCHANGED << outcome, spawned, results, nEmitted, metrics >>
       ELSE /\ AddFields(LegacyRecord(Kind(LegacyCurrent), Head(results[LegacyCurrent])))
            /\ results' = [results EXCEPT
                              ![LegacyCurrent] = Tail(results[LegacyCurrent])]
            /\ nEmitted' = [nEmitted EXCEPT
                               ![LegacyCurrent] = nEmitted[LegacyCurrent] + 1]
            /\ UNCHANGED << pc, outcome, spawned, crashed, gpc, ctxCancelled >>
    /\ UNCHANGED << variant, cfg, established, retval, session,
                    wg, refs, retrieveCall, errors, cancelRequested >>

\* part_000 line 177: return nil after the virtual machines.
LegacyReturn ==
    /\ variant = "legacy" /\ ~crashed /\ gpc = "loop"
    /\ spawned = NTasks
    /\ Return("nil")
    /\ UNCHANGED << variant, cfg, established, wg, spawned, taskVars, metrics,
                    errors, crashed, cancelRequested >>

LegacyStep ==
    \/ LegacyResolve
    \/ LegacyFetch
    \/ LegacyFetchReturn
    \/ LegacyExtract
    \/ LegacyReturn

-----------------------------------------------------------------------------
(* Specifications.                                                         *)

GatherStep ==
    \/ GatherParseURL
    \/ GatherLogin
    \/ GatherDatacenter
    \/ GatherSpawn
    \/ GatherWait

TaskStep(t) ==
    \/ TaskResolve(t)
    \/ TaskFetch(t)
    \/ TaskFetchReturn(t)
    \/ TaskExtract(t)

Next ==
    \/ GatherStep
    \/ \E t \in TaskIds : TaskStep(t)
    \/ ProcessExit
    \/ RequestCancel

\* A cycle of the concurrent Gather.
Spec == Init /\ [][Next]_vars

\* A cycle of any revision of Gather.
InitAll ==
    \/ variant \in { "concurrent", "sequential" } /\ InitCommon
    \/ variant = "legacy" /\ cfg = LegacyPatterns /\ InitCycle

NextAll ==
    \/ Next
    \/ SeqStep
    \/ LegacyStep

SpecAll == InitAll /\ [][NextAll]_vars

-----------------------------------------------------------------------------
(* The published schema: README.md, "Measurements & Fields" and "Tags".    *)

SchemaFields(measurement) ==
    CASE measurement = "host" ->
           { "connection_state", "health_status", "cpu_cores", "cpu_speed",
             "cpu_usage", "memory_granted", "memory_usage" }
      [] measurement = "datastore" ->
           { "type", "capacity", "free_space", "uncommitted_space" }
      [] measurement = "virtual_machine" ->
           { "guest_os_name", "guest_os_id", "ip_address", "connection_state",
             "health_status", "guest_tools_running", "cpu_sockets",
             "cpu_cores_per_socket", "cpu_entitlement", "cpu_usage",
             "cpu_demand", "memory_granted", "memory_entitlement",
             "memory_host_consumed", "memory_guest_active", "memory_swapped",
             "memory_ballooned", "storage_committed", "storage_uncommitted" }

SchemaTags(measurement) ==
    IF measurement = "virtual_machine" THEN { "name", "hostname" } ELSE { "name" }

-----------------------------------------------------------------------------
(* Properties.                                                             *)

FailedOutcomes == { "listFailed", "propsFailed" }

\* Task t's resolution call has returned a list of references.
Resolved(t) ==
    \/ pc[t] \in { "fetching", "extracting", "panicked" }
    \/ pc[t] = "done" /\ outcome[t] # "listFailed"

\* The objects of task t's batch whose property bag its extractor can read.
WellFormedRefs(t) ==
    { i \in DOMAIN refs[t] : ~Panics(Kind(t), BagOf(Kind(t), refs[t][i])) }

\* Some step of the cycle's own code can be taken.
Progress == GatherStep \/ \E t \in TaskIds : TaskStep(t)

\* C1: whichever pattern tasks fail in their resolution or retrieval call,
\* every other pattern task that was started runs to its end and all the
\* records of its batch are emitted: once the cycle is over (Gather has
\* returned, or the process has died), no started task without such a
\* failure, and with a batch its extractor can read, is left unfinished or
\* short of records.
C1_SiblingsRunToTheirEnd ==
    (gpc = "returned" \/ crashed) =>
        \A t \in TaskIds :
            (pc[t] # "idle" /\ outcome[t] \notin FailedOutcomes
                /\ WellFormedRefs(t) = DOMAIN refs[t]) =>
                (pc[t] = "done" /\ nEmitted[t] = Len(refs[t]))

\* The part of C1 that the code keeps: in every cycle that returns, each task
\* whose two calls succeeded and whose extractor did not panic has emitted
\* one record per object of its batch.
C1_AtReturn ==
    gpc = "returned" =>
        \A t \in TaskIds :
            (pc[t] \notin { "idle", "panicked" } /\ outcome[t] \notin FailedOutcomes) =>
                (pc[t] = "done" /\ nEmitted[t] = Len(refs[t]))

\* The join: Gather has not returned while a task it started is still
\* resolving, fetching or extracting: each has returned, or its extractor
\* has panicked and its deferred wg.Done() has run.  No step that adds a
\* record or an error is left.
C2_Join ==
    gpc = "returned" => \A t \in TaskIds : pc[t] \in { "idle", "done", "panicked" }

\* C2: Gather returns only after every task it started has finished, and,
\* every resolution and retrieval call returning, Gather returns: as long
\* as it has not, some step of the cycle can be taken.
C2_JoinedAndReturns ==
    /\ C2_Join
    /\ gpc # "returned" => ENABLED Progress

\* C3 as stated, of every Gather of the file: Gather returns an error
\* exactly when the session was not established; once it was, Gather returns
\* nil and every failed resolution or retrieval is an error in the
\* accumulator.
C3_ErrOnlyOnSessionFailure ==
    gpc = "returned" =>
        /\ retval = "err" <=> ~established
        /\ BagCardinality(errors)
             = Cardinality({ t \in TaskIds : outcome[t] \in FailedOutcomes })

\* C3, amended: the same of the concurrent Gather.
C3_ConcurrentErrOnlyOnSessionFailure ==
    (variant = "concurrent" /\ gpc = "returned") =>
        /\ retval = "err" <=> ~established
        /\ BagCardinality(errors)
             = Cardinality({ t \in TaskIds : outcome[t] \in FailedOutcomes })

\* The concurrent Gather has returned nil from a cycle in which a resolution
\* and a retrieval failed.
C3_Witness ==
    /\ variant = "concurrent" /\ gpc = "returned"
    /\ established /\ retval = "nil"
    /\ \E t, u \in TaskIds : outcome[t] = "listFailed" /\ outcome[u] = "propsFailed"

\* C4: at the end of a cycle the errors in the accumulator are exactly one
\* per failed pattern task, each naming its task's kind, failed call and
\* pattern; a task that succeeded has reported none.
C4_OneErrorPerFailedTask ==
    gpc = "returned" =>
        /\ BagCardinality(errors)
             = Cardinality({ t \in TaskIds : outcome[t] \in FailedOutcomes })
        /\ \A t \in TaskIds :
             /\ CopiesIn([kind |-> Kind(t), what |-> "list", name |-> Name(t)], errors)
                  = Cardinality({ u \in TaskIds : /\ Kind(u) = Kind(t)
                                                  /\ Name(u) = Name(t)
                                                  /\ outcome[u] = "listFailed" })
             /\ CopiesIn([kind |-> Kind(t), what |-> "properties", name |-> Name(t)], errors)
                  = Cardinality({ u \in TaskIds : /\ Kind(u) = Kind(t)
                                                  /\ Name(u) = Name(t)
                                                  /\ outcome[u] = "propsFailed" })

\* A cycle has returned in which one task failed in its resolution, another
\* in its retrieval, and a third succeeded and emitted records.
C4_Witness ==
    /\ gpc = "returned"
    /\ \E t, u, v \in TaskIds :
         /\ outcome[t] = "listFailed"
         /\ outcome[u] = "propsFailed"
         /\ Name(t) # Name(u)
         /\ outcome[v] = "ok" /\ nEmitted[v] > 0

\* C5: whenever Gather has returned after the login succeeded, the session
\* has been closed, and it is never closed while a task is still running.
C5_SessionReleased ==
    /\ (gpc = "returned" /\ session # "none") => session = "closed"
    /\ session = "closed" => \A t \in TaskIds : pc[t] \in { "idle", "done" }

\* C6: a pattern that resolves to no object issues no retrieval call, emits
\* no record and reports no error.
C6_EmptyShortCircuits ==
    \A t \in TaskIds :
        (Resolved(t) /\ refs[t] = << >>) =>
            /\ retrieveCall[t] = << >>
            /\ nEmitted[t] = 0
            /\ outcome[t] # "propsFailed"

\* C7: an object whose property bag lacks a mandatory sub-structure is
\* skipped and the rest goes on: no task is ended by it, the process
\* survives it, and a task that ran to its end has emitted every other
\* object of its batch.
C7_ExtractionFailureConfined ==
    /\ ~crashed
    /\ \A t \in TaskIds :
         /\ pc[t] # "panicked"
         /\ (pc[t] = "done" /\ outcome[t] = "ok") =>
                nEmitted[t] = Cardinality(WellFormedRefs(t))

\* C8: no virtual_machine record carries an ip_address field or a hostname
\* tag with an empty value: for a guest without running tools the keys are
\* left out.
C8_NoEmptyGuestKeys ==
    \A r \in BagToSet(metrics) :
        r.measurement = "virtual_machine" =>
            /\ "ip_address" \in DOMAIN r.fields => r.fields.ip_address # ""
            /\ "hostname" \in DOMAIN r.tags => r.tags.hostname # ""

\* C9: every emitted record has exactly the field keys and the tag keys the
\* published schema gives its measurement.
C9_SchemaKeys ==
    \A r \in BagToSet(metrics) :
        /\ DOMAIN r.fields = SchemaFields(r.measurement)
        /\ DOMAIN r.tags = SchemaTags(r.measurement)

\* C10: once the caller has triggered cancellation, no further record is
\* emitted, and a task that finishes from then on finishes by reporting an
\* error.
C10_CancelStopsTasks ==
    [][ cancelRequested =>
          /\ metrics' = metrics
          /\ \A t \in TaskIds :
               (pc[t] # "done" /\ pc'[t] = "done") =>
                   BagCardinality(errors') > BagCardinality(errors) ]_vars

\* C11: a plugin instance with no pattern list configured runs one task per
\* kind with pattern "*": once its loops have started their tasks, there is
\* a host task, a datastore task and a virtual machine task, each for "*".
C11_DefaultsToAll ==
    (cfg = NewVSphere /\ established /\ spawned = NTasks) =>
        \A k \in { "host", "datastore", "vm" } :
            \E t \in TaskIds : Kind(t) = k /\ Name(t) = "*" /\ pc[t] # "idle"

\* The steps a pattern task's position can take.
TaskTransitions ==
    { << "idle", "resolving" >>, << "resolving", "fetching" >>,
      << "resolving", "done" >>, << "fetching", "extracting" >>,
      << "fetching", "done" >>, << "extracting", "done" >>,
      << "extracting", "panicked" >> }

\* C12: a pattern task goes from resolving to fetching to extracting, in that
\* order; its retrieval call is issued while fetching and only when none was
\* issued before, so at most once and only after its resolution succeeded;
\* it is extracting only after the call; records are emitted only while
\* extracting; a task that reported an error has emitted no record, and the
\* errors in the accumulator are those of the failed tasks, one each.
C12_TaskPhases ==
    /\ [](\A t \in TaskIds :
            /\ outcome[t] \in FailedOutcomes => nEmitted[t] = 0
            /\ nEmitted[t] > 0 => pc[t] \in { "extracting", "done", "panicked" }
            /\ retrieveCall[t] # << >> =>
                 /\ pc[t] \in { "fetching", "extracting", "done", "panicked" }
                 /\ outcome[t] # "listFailed"
            /\ pc[t] \in { "extracting", "panicked" } => retrieveCall[t] # << >>)
    /\ [](BagCardinality(errors)
            = Cardinality({ t \in TaskIds : outcome[t] \in FailedOutcomes }))
    /\ [][ \A t \in TaskIds :
             /\ pc'[t] # pc[t] => << pc[t], pc'[t] >> \in TaskTransitions
             /\ nEmitted'[t] # nEmitted[t] =>
                  (pc[t] = "extracting" /\ pc'[t] = "extracting")
             /\ retrieveCall'[t] # retrieveCall[t] =>
                  (pc[t] = "fetching" /\ pc'[t] = "fetching" /\ retrieveCall[t] = << >>)
             /\ (pc[t] = "fetching" /\ pc'[t] # "fetching") =>
                  retrieveCall[t] # << >> ]_vars

\* One task has failed in its retrieval call, issued after a successful
\* resolution, and emitted nothing; another has run through its phases and
\* emitted records.
C12_Witness ==
    \E t, u \in TaskIds :
        /\ outcome[t] = "propsFailed" /\ refs[t] # << >> /\ retrieveCall[t] # << >>
        /\ outcome[u] = "ok" /\ nEmitted[u] > 0

====
